---- MODULE Spec2Model ----
(***************************************************************************)
(* A model of src/main.rs of dns-server: the DNS header decoder            *)
(* (Header::parse and its bit-field helpers), the question decoder         *)
(* (parse_question_part, parse_question) and the receive loop of main.     *)
(*                                                                         *)
(* Byte buffers are sequences of integers 0..255.  Rust indexes from 0,    *)
(* TLA+ sequences from 1: At, SliceFrom and SliceRange keep the source's   *)
(* 0-based indices.  An out-of-bounds index or slice and an unwrap of None *)
(* are Rust panics: the model's control state "panicked".                  *)
(***************************************************************************)
EXTENDS Integers, Sequences, FiniteSets, TLC

VARIABLES
    pc,        \* control position
    buf,       \* main's receive buffer / the buffer handed to Header::parse
    amt,       \* main: number of bytes recv_from stored
    header,    \* result of Header::parse
    qbuf,      \* the slice handed to parse_question
    off,       \* parse_question: off
    v,         \* parse_question: v, the labels decoded so far
    qtype,     \* parse_question: qtype, once mapped
    question,  \* result of parse_question (an Option)
    given,     \* the value the input buffer was built from (history)
    shorter    \* main: the datagram of this iteration is shorter than the previous one (history)

vars == <<pc, buf, amt, header, qbuf, off, v, qtype, question, given, shorter>>

----------------------------------------------------------------------------
(* Bounds of the model *)

\* longest encoded name (labels with their length bytes) of a well-formed question
MaxNameBytes == 5
\* longest arbitrary buffer handed to parse_question
MaxRawLen == 5
\* longest question part of a datagram received by main (after its 12 header bytes)
MaxDgramTail == 7

(* Program constants *)

\* let mut buf = [0; 1024]
BufSize == 1024
\* main hands &buf[12..] to the question decoder; Header::parse reads buf[0..12]
HeaderLen == 12

----------------------------------------------------------------------------
(* Slices and integers *)

At(b, i) == b[i + 1]

SliceFrom(b, n) == SubSeq(b, n + 1, Len(b))

SliceRange(b, lo, hi) == SubSeq(b, lo + 1, hi)

\* &b[n..] panics when n > b.len()
SliceFromPanics(b, n) == n > Len(b)

\* b[i] panics when i >= b.len()
IndexPanics(b, i) == i >= Len(b)

Min(a, b) == IF a < b THEN a ELSE b

RECURSIVE BitAnd(_, _)
BitAnd(a, b) ==
    IF a = 0 \/ b = 0 THEN 0
    ELSE (IF a % 2 = 1 /\ b % 2 = 1 THEN 1 ELSE 0) + 2 * BitAnd(a \div 2, b \div 2)

RECURSIVE BitOr(_, _)
BitOr(a, b) ==
    IF a = 0 THEN b
    ELSE IF b = 0 THEN a
    ELSE (IF a % 2 = 1 \/ b % 2 = 1 THEN 1 ELSE 0) + 2 * BitOr(a \div 2, b \div 2)

\* x << 8 on a u16
Shl8(x) == (x * 256) % 65536

----------------------------------------------------------------------------
(* Header decoder *)

parse_u16_le(b) == BitOr(Shl8(At(b, 1)), At(b, 0))

\* fn parse_u16: ((higher << 8) | lower)
parse_u16(b) == BitOr(Shl8(At(b, 0)), At(b, 1))

\* buf[0] and buf[1] are indexed
parse_u16_panics(b) == IndexPanics(b, 0) \/ IndexPanics(b, 1)

parse_qr(n) == IF BitAnd(n, 128) = 0 THEN "Query" ELSE "Response"

OpcodeOf(m) ==
    CASE m = 0 -> "Query"
      [] m = 1 -> "IQuery"
      [] m = 2 -> "Status"
      [] m = 3 -> "Reserved"
      [] m = 4 -> "Notify"
      [] m = 5 -> "Update"
      [] OTHER -> "Invalid"

parse_opcode_shifted(n) == OpcodeOf(BitAnd(n, 120) \div 8)

\* match n & 0b01111000 { 0 => Query, 1 => IQuery, ... , _ => Invalid }
parse_opcode(n) == OpcodeOf(BitAnd(n, 120))

\* n & 0b00000100 == 1   (Rust: & binds tighter than ==)
parse_authoritative(n) == BitAnd(n, 4) = 1

\* n & 0b00000010 == 1
parse_truncated(n) == BitAnd(n, 2) = 1

\* n & 0b00000001 == 1
parse_recursion(n) == BitAnd(n, 1) = 1

NoHeader ==
    [some |-> FALSE, id |-> 0, qr |-> "none", opcode |-> "none",
     aa |-> FALSE, tc |-> FALSE, rd |-> FALSE,
     qdcount |-> 0, ancount |-> 0, nscount |-> 0, arcount |-> 0]

\* Header::parse, for a buffer on which it does not panic
Header_parse(b) ==
    [some    |-> TRUE,
     id      |-> parse_u16(b),
     qr      |-> parse_qr(At(b, 2)),
     opcode  |-> parse_opcode(At(b, 2)),
     aa      |-> parse_authoritative(At(b, 2)),
     tc      |-> parse_truncated(At(b, 2)),
     rd      |-> parse_recursion(At(b, 2)),
     qdcount |-> parse_u16(SliceFrom(b, 4)),
     ancount |-> parse_u16(SliceFrom(b, 6)),
     nscount |-> parse_u16(SliceFrom(b, 8)),
     arcount |-> parse_u16(SliceFrom(b, 10))]

\* Header::parse panics when one of its indexings is out of bounds
Header_parse_panics(b) ==
    \/ parse_u16_panics(b)
    \/ IndexPanics(b, 2)
    \/ \E n \in {4, 6, 8, 10} :
          SliceFromPanics(b, n) \/ parse_u16_panics(SliceFrom(b, n))

----------------------------------------------------------------------------
(* Question decoder *)

NoneCode == [some |-> FALSE, val |-> "none"]

SomeCode(x) == [some |-> TRUE, val |-> x]

\* QType::from_u16
QType_from_u16(n) ==
    CASE n = 1   -> SomeCode("A")
      [] n = 2   -> SomeCode("NS")
      [] n = 5   -> SomeCode("CNAME")
      [] n = 6   -> SomeCode("SOA")
      [] n = 11  -> SomeCode("WKS")
      [] n = 12  -> SomeCode("PTR")
      [] n = 15  -> SomeCode("MX")
      [] n = 28  -> SomeCode("AAAA")
      [] n = 33  -> SomeCode("SRV")
      [] n = 255 -> SomeCode("ANY")
      [] OTHER   -> NoneCode

\* QClass::from_u16
QClass_from_u16(n) == IF n = 1 THEN SomeCode("IN") ELSE NoneCode

\* U+FFFD REPLACEMENT CHARACTER
Replacement == 65533

\* a UTF-8 continuation byte: b & 192 == 128
IsCont(b) == b >= 128 /\ b <= 191

\* the length a lead byte announces (0: not a lead byte)
Utf8Width(b) ==
    IF b < 128 THEN 1
    ELSE IF b >= 194 /\ b <= 223 THEN 2
    ELSE IF b >= 224 /\ b <= 239 THEN 3
    ELSE IF b >= 240 /\ b <= 244 THEN 4
    ELSE 0

\* the second byte a 3- or 4-byte lead byte admits
SecondOk(lead, b) ==
    CASE lead = 224 -> b >= 160 /\ b <= 191
      [] lead = 237 -> b >= 128 /\ b <= 159
      [] lead = 240 -> b >= 144 /\ b <= 191
      [] lead = 244 -> b >= 128 /\ b <= 143
      [] OTHER -> IsCont(b)

\* String::from_utf8_lossy: the code points of the string it returns.  Every
\* maximal invalid part of the input becomes one U+FFFD.
RECURSIVE Lossy(_, _)
Lossy(b, i) ==
    IF i >= Len(b) THEN <<>>
    ELSE LET get(k) == IF k < Len(b) THEN At(b, k) ELSE 0
             lead == At(b, i)
             w == Utf8Width(lead)
         IN  CASE w = 1 -> <<lead>> \o Lossy(b, i + 1)
               [] w = 2 ->
                    IF ~IsCont(get(i + 1)) THEN <<Replacement>> \o Lossy(b, i + 1)
                    ELSE <<(lead - 192) * 64 + (get(i + 1) - 128)>> \o Lossy(b, i + 2)
               [] w = 3 ->
                    IF ~SecondOk(lead, get(i + 1)) THEN <<Replacement>> \o Lossy(b, i + 1)
                    ELSE IF ~IsCont(get(i + 2)) THEN <<Replacement>> \o Lossy(b, i + 2)
                    ELSE <<(lead - 224) * 4096 + (get(i + 1) - 128) * 64
                             + (get(i + 2) - 128)>> \o Lossy(b, i + 3)
               [] w = 4 ->
                    IF ~SecondOk(lead, get(i + 1)) THEN <<Replacement>> \o Lossy(b, i + 1)
                    ELSE IF ~IsCont(get(i + 2)) THEN <<Replacement>> \o Lossy(b, i + 2)
                    ELSE IF ~IsCont(get(i + 3)) THEN <<Replacement>> \o Lossy(b, i + 3)
                    ELSE <<(lead - 240) * 262144 + (get(i + 1) - 128) * 4096
                             + (get(i + 2) - 128) * 64 + (get(i + 3) - 128)>>
                         \o Lossy(b, i + 4)
               [] OTHER -> <<Replacement>> \o Lossy(b, i + 1)

from_utf8_lossy(b) == Lossy(b, 0)

\* parse_question_part panics on buf[0] of an empty slice and on a label
\* &buf[1..len+1] that runs past the end of the slice
parse_question_part_panics(b) ==
    \/ IndexPanics(b, 0)
    \/ At(b, 0) # 0 /\ At(b, 0) + 1 > Len(b)

\* parse_question_part: (len, Some(label)) or (0, None)
parse_question_part(b) ==
    LET len == At(b, 0)
    IN  IF len = 0
        THEN [n |-> 0, some |-> FALSE, s |-> <<>>]
        ELSE [n |-> len, some |-> TRUE,
              s |-> from_utf8_lossy(SliceRange(b, 1, len + 1))]

NoQuestion ==
    [some |-> FALSE, qname |-> <<>>, qtype |-> "none", qclass |-> "none", len |-> 0]

AdvanceNoPrefix(o, n) == o + n

\* off += n + 1
Advance(o, n) == o + n + 1

TypeAtSkewed(o) == o + 2

\* &buf[off+1..]
TypeAt(o) == o + 1

\* &buf[off+3..]
ClassAt(o) == o + 3

\* len: off + 4
QuestionLen(o) == o + 4

\* one iteration of the loop of parse_question
QLoop ==
    /\ pc = "q_loop"
    /\ IF SliceFromPanics(qbuf, off)
          \/ parse_question_part_panics(SliceFrom(qbuf, off))
       THEN /\ pc' = "panicked"
            /\ UNCHANGED <<off, v>>
       ELSE LET p == parse_question_part(SliceFrom(qbuf, off))
            IN  IF p.some
                THEN /\ off' = Advance(off, p.n)
                     /\ v' = Append(v, p.s)
                     /\ pc' = "q_loop"
                ELSE /\ pc' = "q_type"
                     /\ UNCHANGED <<off, v>>
    /\ UNCHANGED <<buf, amt, header, qbuf, qtype, question, given, shorter>>

\* let qtype = match QType::from_u16(parse_u16(&buf[off+1..])) ...
QTypeStep ==
    /\ pc = "q_type"
    /\ IF SliceFromPanics(qbuf, TypeAt(off))
          \/ parse_u16_panics(SliceFrom(qbuf, TypeAt(off)))
       THEN /\ pc' = "panicked"
            /\ UNCHANGED <<qtype, question>>
       ELSE LET t == QType_from_u16(parse_u16(SliceFrom(qbuf, TypeAt(off))))
            IN  IF t.some
                THEN /\ qtype' = t.val
                     /\ pc' = "q_class"
                     /\ UNCHANGED question
                ELSE /\ question' = NoQuestion
                     /\ pc' = "q_ret"
                     /\ UNCHANGED qtype
    /\ UNCHANGED <<buf, amt, header, qbuf, off, v, given, shorter>>

\* let qclass = match QClass::from_u16(parse_u16(&buf[off+3..])) ... ; Some(Question {..})
QClassStep ==
    /\ pc = "q_class"
    /\ IF SliceFromPanics(qbuf, ClassAt(off))
          \/ parse_u16_panics(SliceFrom(qbuf, ClassAt(off)))
       THEN /\ pc' = "panicked"
            /\ UNCHANGED question
       ELSE LET c == QClass_from_u16(parse_u16(SliceFrom(qbuf, ClassAt(off))))
            IN  /\ question' =
                      IF c.some
                      THEN [some |-> TRUE, qname |-> v, qtype |-> qtype,
                            qclass |-> c.val, len |-> QuestionLen(off)]
                      ELSE NoQuestion
                /\ pc' = "q_ret"
    /\ UNCHANGED <<buf, amt, header, qbuf, off, v, qtype, given, shorter>>

\* a call of Header::parse
HeaderCall ==
    /\ pc = "h_call"
    /\ IF Header_parse_panics(buf)
       THEN pc' = "panicked" /\ UNCHANGED header
       ELSE pc' = "h_ret" /\ header' = Header_parse(buf)
    /\ UNCHANGED <<buf, amt, qbuf, off, v, qtype, question, given, shorter>>

\* the loop of parse_question run from offset o with the labels vv: where it
\* breaks, or that it panics
RECURSIVE LabelLoop(_, _, _)
LabelLoop(b, o, vv) ==
    IF SliceFromPanics(b, o) \/ parse_question_part_panics(SliceFrom(b, o))
    THEN [panic |-> TRUE, off |-> o, v |-> vv]
    ELSE LET p == parse_question_part(SliceFrom(b, o))
         IN  IF p.some
             THEN LabelLoop(b, Advance(o, p.n), Append(vv, p.s))
             ELSE [panic |-> FALSE, off |-> o, v |-> vv]

\* parse_question as a function of its buffer: the Option it returns, or that
\* it panics
parse_question(b) ==
    LET l == LabelLoop(b, 0, <<>>)
        tp == SliceFromPanics(b, TypeAt(l.off))
                \/ parse_u16_panics(SliceFrom(b, TypeAt(l.off)))
        t == QType_from_u16(parse_u16(SliceFrom(b, TypeAt(l.off))))
        cp == SliceFromPanics(b, ClassAt(l.off))
                \/ parse_u16_panics(SliceFrom(b, ClassAt(l.off)))
        c == QClass_from_u16(parse_u16(SliceFrom(b, ClassAt(l.off))))
    IN  IF l.panic \/ tp THEN [panic |-> TRUE, q |-> NoQuestion]
        ELSE IF ~t.some THEN [panic |-> FALSE, q |-> NoQuestion]
        ELSE IF cp THEN [panic |-> TRUE, q |-> NoQuestion]
        ELSE IF ~c.some THEN [panic |-> FALSE, q |-> NoQuestion]
        ELSE [panic |-> FALSE,
              q |-> [some |-> TRUE, qname |-> l.v, qtype |-> t.val,
                     qclass |-> c.val, len |-> QuestionLen(l.off)]]

----------------------------------------------------------------------------
(* Inputs: the encoders of the wire format, and the bounded input sets *)

SeqsUpTo(S, n) == UNION {[1..k -> S] : k \in 0..n}

RECURSIVE Concat(_)
Concat(ss) == IF ss = <<>> THEN <<>> ELSE Head(ss) \o Concat(Tail(ss))

Bool2Bit(x) == IF x THEN 1 ELSE 0

OpcodeCode(op) ==
    CASE op = "Query" -> 0
      [] op = "IQuery" -> 1
      [] op = "Status" -> 2
      [] op = "Reserved" -> 3
      [] op = "Notify" -> 4
      [] op = "Update" -> 5

BigEndian(x) == <<x \div 256, x % 256>>

\* the 12 header bytes of the documented layout: 16-bit fields big-endian,
\* direction in bit 7 of byte 2, opcode in bits 3-6, the flags in bits 2, 1, 0
EncodeHeader(h) ==
    BigEndian(h.id)
    \o <<(IF h.qr = "Response" THEN 128 ELSE 0) + OpcodeCode(h.opcode) * 8
           + Bool2Bit(h.aa) * 4 + Bool2Bit(h.tc) * 2 + Bool2Bit(h.rd), 0>>
    \o BigEndian(h.qdcount) \o BigEndian(h.ancount)
    \o BigEndian(h.nscount) \o BigEndian(h.arcount)

\* a name: its labels, each behind its length byte, and the zero terminator
EncodeName(labels) ==
    Concat([i \in 1..Len(labels) |-> <<Len(labels[i])>> \o labels[i]]) \o <<0>>

\* a question section: the name, the type and the class
EncodeQuestion(labels, t, c) == EncodeName(labels) \o BigEndian(t) \o BigEndian(c)

HeaderValues ==
    [some : {TRUE}, id : {0, 4660, 65535}, qr : {"Query", "Response"},
     opcode : {"Query", "IQuery", "Status", "Reserved", "Notify", "Update"},
     aa : BOOLEAN, tc : BOOLEAN, rd : BOOLEAN,
     qdcount : {0, 1, 258}, ancount : {0, 1}, nscount : {0}, arcount : {0, 65535}]

\* the header of the end-to-end scenario
ScenarioHeader == <<18, 52, 1, 0, 0, 1, 0, 0, 0, 0, 0, 0>>

\* 12-byte buffers with every value of byte 2, and the buffers cut short
RawHeaders ==
    {[ScenarioHeader EXCEPT ![3] = b] : b \in 0..255}
    \cup {SubSeq(ScenarioHeader, 1, n) : n \in 0..(HeaderLen - 1)}

\* bytes of labels: 'a', the two bytes of U+00E9, and each of them alone
LabelBytes == {97, 195, 169}

\* the names whose encoding (without the terminator) takes at most n bytes
RECURSIVE NamesUpTo(_)
NamesUpTo(n) ==
    {<<>>} \cup
    UNION {{<<l>> \o rest : l \in [1..k -> LabelBytes], rest \in NamesUpTo(n - 1 - k)}
             : k \in 1..(n - 1)}

TypeCodes == {1, 2, 5, 6, 11, 12, 15, 28, 33, 255, 0, 3, 256, 257, 999}

ClassCodes == {1, 0, 2, 257}

RawBytes == {0, 1, 2, 97}

NoGiven ==
    [kind |-> "none", hdr |-> NoHeader, labels |-> <<>>, tcode |-> 0, ccode |-> 0,
     raw |-> <<>>]

HeaderInputs ==
    {[NoGiven EXCEPT !.kind = "header", !.hdr = h] : h \in HeaderValues}
    \cup {[NoGiven EXCEPT !.kind = "rawheader", !.raw = r] : r \in RawHeaders}

QuestionInputs ==
    {[NoGiven EXCEPT !.kind = "question", !.labels = n, !.tcode = t, !.ccode = c]
        : n \in NamesUpTo(MaxNameBytes), t \in TypeCodes, c \in ClassCodes}
    \cup {[NoGiven EXCEPT !.kind = "rawquestion", !.raw = r]
            : r \in SeqsUpTo(RawBytes, MaxRawLen)}

\* the bytes of an input
BytesOf(g) ==
    CASE g.kind = "header" -> EncodeHeader(g.hdr)
      [] g.kind = "question" -> EncodeQuestion(g.labels, g.tcode, g.ccode)
      [] OTHER -> g.raw

----------------------------------------------------------------------------
(* The decoders applied to one buffer *)

InitDecode ==
    /\ given \in HeaderInputs \cup QuestionInputs
    /\ pc = IF given.kind \in {"header", "rawheader"} THEN "h_call" ELSE "q_loop"
    /\ buf = IF given.kind \in {"header", "rawheader"} THEN BytesOf(given) ELSE <<>>
    /\ qbuf = IF given.kind \in {"question", "rawquestion"} THEN BytesOf(given) ELSE <<>>
    /\ amt = 0
    /\ header = NoHeader
    /\ off = 0
    /\ v = <<>>
    /\ qtype = "none"
    /\ question = NoQuestion
    /\ shorter = FALSE

NextDecode == HeaderCall \/ QLoop \/ QTypeStep \/ QClassStep

SpecDecode == InitDecode /\ [][NextDecode]_vars

\* the decoders run to completion: every step that can be taken is taken
SpecDecodeFair == SpecDecode /\ WF_vars(NextDecode)

----------------------------------------------------------------------------
(* The receive loop of main *)

DgramBytes == {0, 1}

\* the datagrams a peer sends: the scenario header and a question part, the
\* header cut short, and one datagram longer than the buffer
Datagrams ==
    {ScenarioHeader \o t : t \in SeqsUpTo(DgramBytes, MaxDgramTail)}
    \cup {SubSeq(ScenarioHeader, 1, n) : n \in 0..(HeaderLen - 1)}
    \cup {[i \in 1..(BufSize + 1) |-> 1]}

ZeroBuf == [i \in 1..BufSize |-> 0]

LoopBufHoisted == buf

\* let mut buf = [0; 1024], inside the loop: the buffer recv_from writes into
LoopBuf == ZeroBuf

\* recv_from stores the datagram's first bytes, as many as the buffer takes
RecvInto(b, d) == [i \in 1..Len(b) |-> IF i <= Len(d) THEN d[i] ELSE b[i]]

Init ==
    /\ pc = "recv"
    /\ buf = ZeroBuf
    /\ amt = 0
    /\ header = NoHeader
    /\ qbuf = <<>>
    /\ off = 0
    /\ v = <<>>
    /\ qtype = "none"
    /\ question = NoQuestion
    /\ given = NoGiven
    /\ shorter = FALSE

\* socket.recv_from(&mut buf) returns Ok((amt, src))
Recv ==
    /\ pc = "recv"
    /\ \E d \in Datagrams :
         /\ buf' = RecvInto(LoopBuf, d)
         /\ amt' = Min(Len(d), BufSize)
         /\ shorter' = (Min(Len(d), BufSize) < amt)
         /\ given' = [NoGiven EXCEPT !.kind = "datagram", !.raw = d]
    /\ pc' = "parse_header"
    /\ UNCHANGED <<header, qbuf, off, v, qtype, question>>

\* socket.recv_from(&mut buf) returns Err(e): reported, and the loop continues
RecvErr ==
    /\ pc = "recv"
    /\ buf' = LoopBuf
    /\ pc' = "recv"
    /\ UNCHANGED <<amt, header, qbuf, off, v, qtype, question, given, shorter>>

\* let header = Header::parse(&buf)
MainHeader ==
    /\ pc = "parse_header"
    /\ IF Header_parse_panics(buf)
       THEN pc' = "panicked" /\ UNCHANGED header
       ELSE pc' = "question_part" /\ header' = Header_parse(buf)
    /\ UNCHANGED <<buf, amt, qbuf, off, v, qtype, question, given, shorter>>

\* let (_, s) = parse_question_part(&buf[12..]); s.unwrap(); then the call
\* parse_question(&buf[12..])
MainQuestionPart ==
    /\ pc = "question_part"
    /\ IF \/ SliceFromPanics(buf, HeaderLen)
          \/ parse_question_part_panics(SliceFrom(buf, HeaderLen))
          \/ ~parse_question_part(SliceFrom(buf, HeaderLen)).some
       THEN /\ pc' = "panicked"
            /\ UNCHANGED <<qbuf, off, v>>
       ELSE /\ pc' = "q_loop"
            /\ qbuf' = SliceFrom(buf, HeaderLen)
            /\ off' = 0
            /\ v' = <<>>
    /\ UNCHANGED <<buf, amt, header, qtype, question, given, shorter>>

\* println!("found q {:?}", s); the iteration's locals go out of scope, and the
\* loop goes back to the next receive
MainReport ==
    /\ pc = "q_ret"
    /\ pc' = "recv"
    /\ header' = NoHeader
    /\ qbuf' = <<>>
    /\ off' = 0
    /\ v' = <<>>
    /\ qtype' = "none"
    /\ question' = NoQuestion
    /\ given' = NoGiven
    /\ UNCHANGED <<buf, amt, shorter>>

Next ==
    \/ Recv
    \/ RecvErr
    \/ MainHeader
    \/ MainQuestionPart
    \/ QLoop
    \/ QTypeStep
    \/ QClassStep
    \/ MainReport

Spec == Init /\ [][Next]_vars

----------------------------------------------------------------------------
(* Vocabulary of the properties *)

\* bit i of a byte
Bit(n, i) == (n \div (2 ^ i)) % 2

\* the UTF-8 bytes of a string, given as its code points (str::as_bytes)
RECURSIVE Utf8Bytes(_)
Utf8Bytes(cps) ==
    IF cps = <<>> THEN <<>>
    ELSE LET c == Head(cps)
             e == IF c < 128 THEN <<c>>
                  ELSE IF c < 2048 THEN <<192 + (c \div 64), 128 + (c % 64)>>
                  ELSE IF c < 65536
                       THEN <<224 + (c \div 4096), 128 + ((c \div 64) % 64),
                              128 + (c % 64)>>
                  ELSE <<240 + (c \div 262144), 128 + ((c \div 4096) % 64),
                         128 + ((c \div 64) % 64), 128 + (c % 64)>>
         IN  e \o Utf8Bytes(Tail(cps))

\* sum over the labels of (1 + label length)
RECURSIVE LabelsWireLen(_)
LabelsWireLen(labels) ==
    IF labels = <<>> THEN 0 ELSE 1 + Len(Head(labels)) + LabelsWireLen(Tail(labels))

ValidTypeCodes == {1, 2, 5, 6, 11, 12, 15, 28, 33, 255}

\* the receive buffer a datagram leaves behind in a fresh zeroed buffer
ZeroPadded(d) == [i \in 1..BufSize |-> IF i <= Len(d) THEN d[i] ELSE 0]

InHeaderDecode == given.kind \in {"header", "rawheader"}

InQuestionDecode == given.kind \in {"question", "rawquestion"}

\* main is between the receive and the end of the iteration
InIteration == pc \in {"parse_header", "question_part", "q_loop", "q_type", "q_class", "q_ret"}

----------------------------------------------------------------------------
(* C1: in the receive loop no received datagram puts the process into a       *)
(* panicked state: every iteration goes back to the next receive.             *)
MainNeverPanics == pc # "panicked"

(* C2, as stated: for a well-formed question section parse_question returns,  *)
(* and returns a Question exactly when the type code is one of the ten mapped *)
(* codes and the class code is 1; then qname is the k labels in wire order    *)
(* (the strings' bytes are the labels' bytes), qtype the mapping of the type  *)
(* code and qclass IN.                                                        *)
QuestionIsWireLabels ==
    given.kind = "question" =>
        /\ pc # "panicked"
        /\ pc = "q_ret" =>
             /\ question.some <=> (given.tcode \in ValidTypeCodes /\ given.ccode = 1)
             /\ question.some =>
                  /\ Len(question.qname) = Len(given.labels)
                  /\ \A i \in 1..Len(given.labels) :
                        Utf8Bytes(question.qname[i]) = given.labels[i]
                  /\ question.qtype = QType_from_u16(given.tcode).val
                  /\ question.qclass = "IN"

(* C2, amended: the same, with qname the k labels in wire order each decoded  *)
(* as UTF-8 with its invalid parts replaced by U+FFFD.                        *)
QuestionIsDecodedLabels ==
    given.kind = "question" =>
        /\ pc # "panicked"
        /\ pc = "q_ret" =>
             /\ question.some <=> (given.tcode \in ValidTypeCodes /\ given.ccode = 1)
             /\ question.some =>
                  /\ Len(question.qname) = Len(given.labels)
                  /\ \A i \in 1..Len(given.labels) :
                        question.qname[i] = from_utf8_lossy(given.labels[i])
                  /\ question.qtype = QType_from_u16(given.tcode).val
                  /\ question.qclass = "IN"

\* a question of two labels was returned, the first of them not valid UTF-8
QuestionDecodedWitness ==
    /\ pc = "q_ret"
    /\ given.kind = "question"
    /\ question.some
    /\ Len(question.qname) = 2
    /\ question.qname[1] = <<Replacement>>
    /\ question.qtype = "SRV"

(* C3: the len of a decoded question is the number of bytes of its encoding:  *)
(* sum over the labels of (1 + label length), + 1 for the terminator, + 2 for *)
(* the type, + 2 for the class.                                               *)
QuestionLenIsEncodedLength ==
    (pc = "q_ret" /\ given.kind = "question" /\ question.some) =>
        question.len = LabelsWireLen(given.labels) + 1 + 2 + 2

(* C4: a header encoded in the documented layout and decoded by Header::parse *)
(* gives back every field value.                                              *)
HeaderRoundTrip == (pc = "h_ret" /\ given.kind = "header") => header = given.hdr

(* C5: for every byte 2 the decoded flags are the bits: authoritative is bit  *)
(* 2, truncated bit 1, recursion-desired bit 0.                               *)
FlagsAreMaskBits ==
    pc = "h_ret" =>
        /\ header.aa <=> Bit(At(buf, 2), 2) = 1
        /\ header.tc <=> Bit(At(buf, 2), 1) = 1
        /\ header.rd <=> Bit(At(buf, 2), 0) = 1

(* C6: a truncated input never ends in an out-of-bounds fault: not in the     *)
(* header decoder on a buffer of fewer than 12 bytes, not in the question     *)
(* decoder when a label, the type or the class runs past the end.             *)
TruncatedIsNoFault ==
    /\ (InHeaderDecode /\ Len(buf) < HeaderLen) => pc # "panicked"
    /\ InQuestionDecode => pc # "panicked"

(* C7, as stated: the scenario's header decodes to id 0x1234, direction       *)
(* Query, recursion-desired false and question-count 1.                       *)
ScenarioRecursionFalse ==
    (pc = "h_ret" /\ buf = ScenarioHeader) =>
        /\ header.id = 4660
        /\ header.qr = "Query"
        /\ header.rd = FALSE
        /\ header.qdcount = 1

(* C7, amended: the scenario's header decodes to id 0x1234, direction Query,  *)
(* recursion-desired true (bit 0 of byte 2, 0x01, is set) and                 *)
(* question-count 1.                                                          *)
ScenarioRecursionTrue ==
    (pc = "h_ret" /\ buf = ScenarioHeader) =>
        /\ header.id = 4660
        /\ header.qr = "Query"
        /\ header.rd = TRUE
        /\ header.qdcount = 1

\* the scenario's header was decoded
ScenarioWitness == pc = "h_ret" /\ buf = ScenarioHeader /\ header.some

(* C8: for every byte 2 the decoded opcode is Query when bits 3-6 are all     *)
(* zero and Invalid otherwise; no other variant is ever produced.             *)
OpcodeIsQueryOrInvalid ==
    pc = "h_ret" =>
        header.opcode = IF (At(buf, 2) \div 8) % 16 = 0 THEN "Query" ELSE "Invalid"

\* a header whose opcode bits are 2 (Status on the wire) was decoded
OpcodeWitness ==
    /\ pc = "h_ret"
    /\ (At(buf, 2) \div 8) % 16 = 2
    /\ header.opcode = "Invalid"

(* C9: in every iteration of the receive loop the buffer, the header and the  *)
(* question are those of this iteration's datagram zero-padded to the         *)
(* buffer's size: nothing of an earlier datagram is visible.                  *)
IterationsIndependent ==
    InIteration =>
        /\ buf = ZeroPadded(given.raw)
        /\ pc # "parse_header" => header = Header_parse(ZeroPadded(given.raw))
        /\ pc \in {"q_loop", "q_type", "q_class", "q_ret"} =>
              qbuf = SliceFrom(ZeroPadded(given.raw), HeaderLen)
        /\ pc = "q_ret" =>
              question = parse_question(SliceFrom(ZeroPadded(given.raw), HeaderLen)).q

\* a datagram shorter than the one before it was decoded to the end
ShorterDatagramWitness == pc = "q_ret" /\ shorter /\ amt > HeaderLen

(* C10: the label loop of parse_question terminates: an iteration that stays  *)
(* in the loop moves the offset forward by at least 2 and not past the end of *)
(* the buffer, and the loop is left after finitely many iterations.           *)
LabelLoopTerminates ==
    /\ [][(pc = "q_loop" /\ pc' = "q_loop") =>
             (off' >= off + 2 /\ off' <= Len(qbuf))]_vars
    /\ [](pc = "q_loop" => <>(pc # "q_loop"))

\* the loop has read two labels and goes on
LabelLoopWitness == pc = "q_loop" /\ Len(v) = 2 /\ off >= 4 /\ InQuestionDecode

====
